---- MODULE Spec2Model ----
(***************************************************************************)
(* Layer-skipping transformer language models                              *)
(* (trax/models/research/layerdrop_transformer.py).                        *)
(*                                                                         *)
(* The model follows the control layer of the two models: the SyncedRandom *)
(* layer, the LargerThan predicate, the ConditionedBlock of each model and *)
(* the Serial that assembles them.  Every data-parallel replica runs the   *)
(* same Serial on its own data stack; the only point where replicas meet   *)
(* is the psum inside SyncedRandom.forward.                                *)
(*                                                                         *)
(* Floats are fixed-point numbers counted in 1/Unit: float(i) is i * Unit, *)
(* a skip_fraction of 0.5 is Unit \div 2.  The random bits of              *)
(* random.uniform have Res equally spaced values in [0, 1).                *)
(***************************************************************************)
EXTENDS Integers, Sequences, FiniteSets, TLC

MaxLayers == 2        \* largest n_layers constructed
MaxReplicas == 2      \* largest device_count
Unit == 3             \* fixed-point steps per 1.0
Res == 3              \* number of distinct values of the random bits
KeyMod == 3           \* number of distinct random keys (keys wrap on addition)

Modes == {"train", "eval", "predict"}
Models == {"skipping", "layerdrop"}
SkipFractions == (0 - 1) .. (Unit + 1)   \* includes values outside (0, 1)
Keys == 0 .. (KeyMod - 1)

VARIABLES
  status,         \* "unbuilt", "built" or the exception raised by the constructor
  model,          \* which constructor was called
  mode, n_layers, skip_fraction,   \* constructor arguments
  device_count,   \* fastmath.device_count()
  min_val, max_val,  \* SyncedRandom._min_val, _max_val
  pc,             \* per replica: position in the Serial
  ip,             \* per replica: index of the current ConditionedBlock
  stack,          \* per replica: the data stack
  rng,            \* per replica: self.rng handed to the running SyncedRandom
  draws,          \* per replica: number of random.uniform calls this pass
  psums,          \* per replica: number of psum calls this pass
  trace,          \* per replica: one record per Cond evaluated this pass
  arrived         \* replicas waiting inside psum

vars == <<status, model, mode, n_layers, skip_fraction, device_count,
          min_val, max_val, pc, ip, stack, rng, draws, psums, trace, arrived>>

config == <<status, model, mode, n_layers, skip_fraction, device_count,
            min_val, max_val>>

Replicas == 1 .. device_count

----------------------------------------------------------------------------
(* Arithmetic helpers *)

Maximum(a, b) == IF a >= b THEN a ELSE b

\* quotient rounded toward zero, any signs, b # 0
Quot(a, b) ==
  LET na == IF a < 0 THEN 0 - a ELSE a
      nb == IF b < 0 THEN 0 - b ELSE b
      q == na \div nb
  IN IF (a < 0) = (b < 0) THEN q ELSE 0 - q

\* float(n)
Float(n) == n * Unit

\* a / b for fixed-point a, b
FloatDiv(a, b) == Quot(a * Unit, b)

----------------------------------------------------------------------------
(* Stack values: activations and scalars *)

Act(v) == [kind |-> "act", v |-> v]
Num(v) == [kind |-> "num", v |-> v]

\* the activation a replica's embedder produces from its own data shard
Embedding(r) == Act(r)

\* transformer._DecoderBlock: a new activation that depends on the old one
DecoderBlock(x) == Act(x.v * 2 + 1)

\* tl.Serial(): the else branch, no layers
NoOpMutRunsBlock(x) == DecoderBlock(x)
NoOp(x) == x

\* tl.Select(indices, n_in): replaces the top n_in items by stack[indices]
Select(indices, n_in, s) ==
  [j \in 1 .. Len(indices) |-> s[indices[j] + 1]] \o SubSeq(s, n_in + 1, Len(s))

\* tl.Swap()
Swap(s) == Select(<<1, 0>>, 2, s)

\* LargerThan(val): lambda x: x > val
LargerThanMutGeq(val, x) == x >= val
LargerThan(val, x) == x > val

\* tl.Cond(cond, true, false) on a stack (cond input, activation, rest...):
\* evaluates cond on the top item, then exactly one branch on the next item
Cond(val, s) ==
  LET c == LargerThan(val, s[1].v)
      x == s[2]
      out == IF c THEN DecoderBlock(x) ELSE NoOp(x)
  IN [stack |-> <<out>> \o SubSeq(s, 3, Len(s)),
      rec |-> [cond |-> c,
               then |-> IF c THEN 1 ELSE 0, else |-> IF c THEN 0 ELSE 1,
               in |-> x, out |-> out]]

----------------------------------------------------------------------------
(* SyncedRandom *)

\* random bits of a key, as a numerator over Res
Bits(key) == (key + 1) % Res

\* random.uniform(rng, (), float32, minval, maxval)
Uniform(key, minval, maxval) ==
  Maximum(minval, minval + Quot(Bits(key) * (maxval - minval), Res))

\* fastmath.psum(self.rng, 'batch'): keys add with wrap-around
RECURSIVE SumKeys(_, _)
SumKeys(f, S) ==
  IF S = {} THEN 0
  ELSE LET r == CHOOSE x \in S : TRUE IN (f[r] + SumKeys(f, S \ {r})) % KeyMod

\* fastmath.device_count() > 1
ReductionRequiredMutNever(n) == FALSE
ReductionRequired(n) == n > 1

\* the rng forward samples from on replica r, keys[q] being self.rng on q
ForwardRngMutLocal(keys, r) == keys[r]
ForwardRng(keys, r) ==
  IF ReductionRequired(device_count) THEN SumKeys(keys, Replicas) ELSE keys[r]

\* forward's result on replica r
ForwardResult(keys, r) == Uniform(ForwardRng(keys, r), min_val, max_val)

----------------------------------------------------------------------------
(* Model constructors *)

minimum_layersMutZero(m, n) == 0
minimum_layers(m, n) == IF m = "train" THEN 0 ELSE Float(n)

maximum_layers(m, n, sf) ==
  IF m = "train" THEN FloatDiv(Float(n), sf) ELSE Float(n)

\* cutoff of the layerdrop model's LargerThan
LayerDropCutoffMutZero(m, sf) == 0
LayerDropCutoff(m, sf) == IF m = "train" THEN sf ELSE 0

\* ConditionedBlock(current_layer) of the skipping model, on a stack
SkippingConditionedBlockMutDropScalar(i, s) ==
  Cond(Float(i), Select(<<1, 0>>, 2, s))
SkippingConditionedBlock(i, s) ==
  Cond(Float(i), Select(<<1, 0, 1>>, 2, s))

\* the Cond of the layerdrop model's ConditionedBlock()
LayerDropConditionedBlock(s) ==
  Cond(LayerDropCutoff(mode, skip_fraction), s)

Init ==
  /\ status = "unbuilt"
  /\ model = "none" /\ mode = "none" /\ n_layers = 0 /\ skip_fraction = 0
  /\ min_val = 0 /\ max_val = 0
  /\ device_count \in 1 .. MaxReplicas
  /\ pc = [r \in Replicas |-> "idle"]
  /\ ip = [r \in Replicas |-> 0]
  /\ stack = [r \in Replicas |-> <<>>]
  /\ rng = [r \in Replicas |-> 0]
  /\ draws = [r \in Replicas |-> 0]
  /\ psums = [r \in Replicas |-> 0]
  /\ trace = [r \in Replicas |-> <<>>]
  /\ arrived = {}

passvars == <<pc, ip, stack, rng, draws, psums, trace, arrived>>

\* LayerDropSkippingTransformerLM(..., n_layers, mode, skip_fraction)
ConstructSkipping(m, n, sf) ==
  /\ status = "unbuilt"
  /\ model' = "skipping" /\ mode' = m /\ n_layers' = n /\ skip_fraction' = sf
  /\ IF m = "train" /\ sf = 0
       THEN /\ status' = "ZeroDivisionError"
            /\ UNCHANGED <<min_val, max_val>>
       ELSE /\ status' = "built"
            /\ min_val' = minimum_layers(m, n)
            /\ max_val' = maximum_layers(m, n, sf)
  /\ UNCHANGED <<device_count, passvars>>

\* LayerDropTransformerLM(..., n_layers, mode, skip_fraction)
ConstructLayerDrop(m, n, sf) ==
  /\ status = "unbuilt"
  /\ model' = "layerdrop" /\ mode' = m /\ n_layers' = n /\ skip_fraction' = sf
  /\ status' = "built"
  /\ min_val' = Float(0) /\ max_val' = Float(1)
  /\ UNCHANGED <<device_count, passvars>>

Construct ==
  \E m \in Modes, n \in 0 .. MaxLayers, sf \in SkipFractions :
    ConstructSkipping(m, n, sf) \/ ConstructLayerDrop(m, n, sf)

----------------------------------------------------------------------------
(* One forward pass, replica by replica *)

\* the driver calls the model on every replica
NewPass ==
  /\ status = "built"
  /\ \A r \in Replicas : pc[r] \in {"idle", "done"}
  /\ pc' = [r \in Replicas |-> "embed"]
  /\ ip' = [r \in Replicas |-> 0]
  /\ stack' = [r \in Replicas |-> <<>>]
  /\ rng' = [r \in Replicas |-> 0]
  /\ draws' = [r \in Replicas |-> 0]
  /\ psums' = [r \in Replicas |-> 0]
  /\ trace' = [r \in Replicas |-> <<>>]
  /\ arrived' = {}
  /\ UNCHANGED config

\* position after the layer at index i - 1 is finished
AfterLayer(i) ==
  IF i < n_layers
    THEN (IF model = "skipping" THEN "block" ELSE "rand")
    ELSE (IF model = "skipping" THEN "select" ELSE "head")

\* tl.ShiftRight, embedder
Embed(r) ==
  /\ pc[r] = "embed"
  /\ stack' = [stack EXCEPT ![r] = <<Embedding(r)>>]
  /\ pc' = [pc EXCEPT ![r] =
              IF model = "skipping" THEN "rand" ELSE AfterLayer(0)]
  /\ UNCHANGED <<config, ip, rng, draws, psums, trace, arrived>>

\* position after SyncedRandom
AfterRand == IF model = "skipping" THEN "swap" ELSE "cond"

\* SyncedRandom.forward on a single device: sample from self.rng
RandLocal(r, key) ==
  /\ pc[r] = "rand"
  /\ ~ReductionRequired(device_count)
  /\ rng' = [rng EXCEPT ![r] = key]
  /\ stack' = [stack EXCEPT ![r] = <<Num(ForwardResult(rng', r))>> \o @]
  /\ draws' = [draws EXCEPT ![r] = @ + 1]
  /\ pc' = [pc EXCEPT ![r] = AfterRand]
  /\ UNCHANGED <<config, ip, psums, trace, arrived>>

\* SyncedRandom.forward, several devices: enter psum with self.rng and wait
RandArrive(r, key) ==
  /\ pc[r] = "rand"
  /\ ReductionRequired(device_count)
  /\ rng' = [rng EXCEPT ![r] = key]
  /\ arrived' = arrived \cup {r}
  /\ psums' = [psums EXCEPT ![r] = @ + 1]
  /\ pc' = [pc EXCEPT ![r] = "psum"]
  /\ UNCHANGED <<config, ip, stack, draws, trace>>

\* SyncedRandom.forward, several devices: every replica is inside psum, the
\* collective returns the sum everywhere and each replica samples from it
PsumComplete ==
  /\ ReductionRequired(device_count)
  /\ arrived = Replicas
  /\ stack' = [r \in Replicas |-> <<Num(ForwardResult(rng, r))>> \o stack[r]]
  /\ draws' = [r \in Replicas |-> draws[r] + 1]
  /\ pc' = [r \in Replicas |-> AfterRand]
  /\ rng' = [r \in Replicas |-> 0]
  /\ arrived' = {}
  /\ UNCHANGED <<config, ip, psums, trace>>

\* tl.Swap() of the skipping model
SwapStep(r) ==
  /\ pc[r] = "swap"
  /\ stack' = [stack EXCEPT ![r] = Swap(@)]
  /\ pc' = [pc EXCEPT ![r] = AfterLayer(0)]
  /\ UNCHANGED <<config, ip, rng, draws, psums, trace, arrived>>

\* ConditionedBlock(ip) of the skipping model
SkippingBlock(r) ==
  /\ pc[r] = "block"
  /\ LET res == SkippingConditionedBlock(ip[r], stack[r]) IN
       /\ stack' = [stack EXCEPT ![r] = res.stack]
       /\ trace' = [trace EXCEPT ![r] = Append(@, res.rec)]
  /\ ip' = [ip EXCEPT ![r] = @ + 1]
  /\ pc' = [pc EXCEPT ![r] = AfterLayer(ip[r] + 1)]
  /\ UNCHANGED <<config, rng, draws, psums, arrived>>

\* tl.Select([0], n_in=2) of the skipping model
SelectStep(r) ==
  /\ pc[r] = "select"
  /\ stack' = [stack EXCEPT ![r] = Select(<<0>>, 2, @)]
  /\ pc' = [pc EXCEPT ![r] = "head"]
  /\ UNCHANGED <<config, ip, rng, draws, psums, trace, arrived>>

\* tl.Cond of the layerdrop model's ConditionedBlock
LayerDropCond(r) ==
  /\ pc[r] = "cond"
  /\ LET res == LayerDropConditionedBlock(stack[r]) IN
       /\ stack' = [stack EXCEPT ![r] = res.stack]
       /\ trace' = [trace EXCEPT ![r] = Append(@, res.rec)]
  /\ ip' = [ip EXCEPT ![r] = @ + 1]
  /\ pc' = [pc EXCEPT ![r] = AfterLayer(ip[r] + 1)]
  /\ UNCHANGED <<config, rng, draws, psums, arrived>>

\* tl.LayerNorm, tl.Dense, tl.LogSoftmax: one input, one output
OutputHead(r) ==
  /\ pc[r] = "head"
  /\ pc' = [pc EXCEPT ![r] = "done"]
  /\ UNCHANGED <<config, ip, stack, rng, draws, psums, trace, arrived>>

Forward(r) ==
  \/ Embed(r)
  \/ \E key \in Keys : RandLocal(r, key)
  \/ \E key \in Keys : RandArrive(r, key)
  \/ SwapStep(r)
  \/ SkippingBlock(r)
  \/ SelectStep(r)
  \/ LayerDropCond(r)
  \/ OutputHead(r)

Next ==
  \/ Construct
  \/ NewPass
  \/ PsumComplete
  \/ \E r \in Replicas : Forward(r)

Spec == Init /\ [][Next]_vars

\* the collective returns once every replica is in it, and every replica
\* that can take a step of its pass eventually takes one
FairSpec ==
  /\ Spec
  /\ WF_vars(PsumComplete)
  /\ \A r \in 1 .. MaxReplicas : WF_vars(r \in Replicas /\ Forward(r))

----------------------------------------------------------------------------
(* Properties *)

Built == status = "built"
Done(r) == pc[r] = "done"
Last(q) == q[Len(q)]
ThenRan(r, j) == trace[r][j].then = 1
ElseRan(r, j) == trace[r][j].else = 1

\* replica r holds a decision scalar on its stack, and where
HasScalar(r) == pc[r] \in {"swap", "cond", "block", "select"}
Scalar(r) == IF pc[r] \in {"swap", "cond"} THEN stack[r][1] ELSE stack[r][2]

\* C1: in the skipping model block i executes iff the pass's decision scalar
\* is strictly greater than float(i) (equality skips), so the executed
\* blocks of a pass form a prefix of the stack.
C1_GlobalPrefix ==
  (Built /\ model = "skipping") =>
    \A r \in Replicas : \A j \in 1 .. Len(trace[r]) :
      /\ ThenRan(r, j) => \A h \in 1 .. j : ThenRan(r, h)
      /\ pc[r] \in {"block", "select"} =>
           /\ ThenRan(r, j) <=> (Scalar(r).v > Float(j - 1))
           /\ ~ThenRan(r, j) <=> ElseRan(r, j)
           /\ (Scalar(r).v = Float(j - 1)) => ElseRan(r, j)

\* a pass of the skipping model that ran block 0 and skipped block 1 because
\* the scalar was exactly 1.0
C1_Witness ==
  /\ Built /\ model = "skipping" /\ mode = "train" /\ n_layers = 2
  /\ 0 < skip_fraction /\ skip_fraction < Float(1)
  /\ \E r \in Replicas :
       /\ pc[r] = "select" /\ Len(trace[r]) = 2
       /\ Scalar(r) = Num(Float(1))
       /\ ThenRan(r, 1) /\ ElseRan(r, 2)

C2_Agreement ==
  Built =>
    /\ device_count > 1 =>
         \A r1, r2 \in Replicas :
           /\ (HasScalar(r1) /\ HasScalar(r2) /\ draws[r1] = draws[r2]) =>
                Scalar(r1) = Scalar(r2)
           /\ \A j \in 1 .. Len(trace[r1]) :
                j <= Len(trace[r2]) => trace[r1][j].cond = trace[r2][j].cond
    /\ device_count = 1 =>
         \A r \in Replicas :
           /\ psums[r] = 0
           /\ pc[r] \in {"swap", "cond"} =>
                Scalar(r) = Num(Uniform(rng[r], min_val, max_val))

\* when the reduction returns, every replica pushes the sample of the sum of
\* all the local states that were contributed
C2_SampleOfSum ==
  (device_count > 1 /\ arrived = Replicas) =>
    \A r \in Replicas :
      pc'[r] # "psum" =>
        /\ Len(stack'[r]) = Len(stack[r]) + 1
        /\ stack'[r][1] =
             Num(Uniform(SumKeys(rng, Replicas), min_val, max_val))

\* C2: with several replicas every replica samples from the sum of all
\* local random states, so all replicas get the same scalar and take the
\* same branch at every layer; with one replica there is no reduction and
\* the scalar is sampled from the local state.
C2_Synced == []C2_Agreement /\ [][C2_SampleOfSum]_vars

\* two replicas of a train-mode layerdrop model have passed two reductions:
\* they took the same branch at layer 0 and hold the same scalar, which is
\* not zero, for layer 1
C2_Witness ==
  /\ Built /\ device_count = 2 /\ model = "layerdrop" /\ mode = "train"
  /\ \A r \in Replicas : psums[r] = 2 /\ pc[r] = "cond" /\ Len(trace[r]) = 1
  /\ Scalar(1) = Scalar(2) /\ Scalar(1).v > 0
  /\ trace[1][1].cond = trace[2][1].cond
  /\ stack[1][2] # stack[2][2]

\* number of psum calls replica r has made when it stands at pc[r]
ExpectedPsums(r) ==
  IF model = "skipping"
    THEN (IF pc[r] \in {"embed", "rand"} THEN 0 ELSE 1)
    ELSE (IF pc[r] \in {"psum", "cond"} THEN ip[r] + 1 ELSE ip[r])

C3_PsumPositions ==
  (Built /\ device_count > 1) =>
    \A r \in Replicas :
      /\ pc[r] # "idle" => psums[r] = ExpectedPsums(r)
      /\ Done(r) => psums[r] = (IF model = "skipping" THEN 1 ELSE n_layers)

PassRunning == Built /\ \E r \in Replicas : pc[r] \notin {"idle", "done"}
PassComplete == \A r \in Replicas : Done(r)

\* C3: in a multi-replica run every replica calls the reduction the same
\* number of times at the same positions (once before the stack in the
\* skipping model, once per layer in the layerdrop model), whatever the
\* branches, and every forward pass that started runs to completion.
C3_BarrierProgress ==
  /\ []C3_PsumPositions
  /\ PassRunning ~> PassComplete

\* a layerdrop pass on two replicas that went through two reductions and
\* took different branches at its two layers
C3_Witness ==
  /\ Built /\ device_count = 2 /\ model = "layerdrop" /\ n_layers = 2
  /\ PassComplete
  /\ \A r \in Replicas : psums[r] = 2 /\ ThenRan(r, 1) # ThenRan(r, 2)

\* C4: in eval or predict mode the skipping model's decision scalar is the
\* constant float(n_layers) and all n_layers blocks execute in every pass.
C4_GlobalEvalFullDepth ==
  (Built /\ model = "skipping" /\ mode # "train") =>
    \A r \in Replicas :
      /\ HasScalar(r) => Scalar(r) = Num(Float(n_layers))
      /\ \A j \in 1 .. Len(trace[r]) : ThenRan(r, j) /\ ~ElseRan(r, j)
      /\ pc[r] \in {"select", "head", "done"} => Len(trace[r]) = n_layers

\* an eval pass of a two-layer skipping model finished on one device, the
\* random bits of its draw not being zero
C4_Witness ==
  /\ Built /\ model = "skipping" /\ mode = "eval" /\ n_layers = 2
  /\ device_count = 1
  /\ Done(1) /\ Len(trace[1]) = 2 /\ draws[1] = 1 /\ Bits(rng[1]) # 0

\* C5 as stated: in eval or predict mode the layerdrop model executes every
\* block for every value of the random source, the value 0 included.
C5_LayerDropEvalFullDepth ==
  (Built /\ model = "layerdrop" /\ mode # "train") =>
    \A r \in Replicas : \A j \in 1 .. Len(trace[r]) : ThenRan(r, j)

\* C6: at every layer exactly one branch runs; the outgoing activation is
\* block(incoming) when the condition holds and the incoming activation
\* itself when it does not.
C6_ExactlyOneBranch ==
  Built =>
    \A r \in Replicas :
      /\ Len(trace[r]) = ip[r]
      /\ \A j \in 1 .. Len(trace[r]) :
           LET t == trace[r][j] IN
             /\ t.then + t.else = 1
             /\ t.cond => (t.then = 1 /\ t.out = DecoderBlock(t.in))
             /\ ~t.cond => (t.else = 1 /\ t.out = t.in)
             /\ t.in = (IF j = 1 THEN Embedding(r) ELSE trace[r][j - 1].out)
      /\ (trace[r] # <<>> /\ pc[r] \notin {"psum", "cond"}) =>
           stack[r][1] = Last(trace[r]).out

\* a finished pass in which one layer bypassed its block and the next ran it
C6_Witness ==
  /\ Built
  /\ \E r \in Replicas :
       /\ Done(r) /\ Len(trace[r]) = 2
       /\ ElseRan(r, 1) /\ trace[r][1].out = Embedding(r)
       /\ ThenRan(r, 2) /\ trace[r][2].out = DecoderBlock(Embedding(r))
       /\ stack[r] = <<DecoderBlock(Embedding(r))>>

C7_DrawPerLayer ==
  (Built /\ model = "layerdrop" /\ mode = "train") =>
    \A r \in Replicas :
      /\ draws[r] = (IF pc[r] = "cond" THEN ip[r] + 1 ELSE ip[r])
      /\ Done(r) => (draws[r] = n_layers /\ Len(trace[r]) = n_layers)
      /\ pc[r] = "cond" =>
           /\ Scalar(r).kind = "num"
           /\ Float(0) <= Scalar(r).v /\ Scalar(r).v < Float(1)

\* the Cond that follows a draw compares that draw with skip_fraction
C7_OwnScalarDecides ==
  (Built /\ model = "layerdrop" /\ mode = "train") =>
    \A r \in Replicas :
      (pc[r] = "cond" /\ pc'[r] # "cond") =>
        /\ Len(trace'[r]) = Len(trace[r]) + 1
        /\ (Last(trace'[r]).then = 1) <=> (stack[r][1].v > skip_fraction)
        /\ (Last(trace'[r]).else = 1) <=> (stack[r][1].v <= skip_fraction)
        /\ Len(stack'[r]) = 1

C8_ConfigurationError ==
  (status # "unbuilt"
     /\ (skip_fraction <= 0 \/ skip_fraction >= Float(1) \/ min_val > max_val))
    => status = "ConfigurationError"

\* C9 as stated: in eval or predict mode a forward pass samples nothing and
\* reduces no random state.
C9_NoRandomnessInEval ==
  (Built /\ mode # "train") =>
    \A r \in Replicas : draws[r] = 0 /\ psums[r] = 0

C10_StackShape ==
  (Built /\ model = "skipping") =>
    \A r \in Replicas :
      /\ draws[r] = (IF pc[r] \in {"idle", "embed", "rand", "psum"}
                       THEN 0 ELSE 1)
      /\ pc[r] = "swap" =>
           Len(stack[r]) = 2 /\ stack[r][1].kind = "num"
      /\ pc[r] \in {"block", "select"} =>
           /\ Len(stack[r]) = 2
           /\ stack[r][1].kind = "act"
           /\ stack[r][2].kind = "num"
      /\ pc[r] \in {"head", "done"} =>
           /\ Len(stack[r]) = 1
           /\ stack[r][1].kind = "act"
           /\ Len(trace[r]) = n_layers

\* Swap and every ConditionedBlock hand on the scalar that was drawn
C10_ScalarKept ==
  (Built /\ model = "skipping") =>
    \A r \in Replicas :
      /\ (pc[r] = "swap" /\ pc'[r] # "swap") => stack'[r][2] = stack[r][1]
      /\ (pc[r] = "block" /\ ip'[r] # ip[r]) => stack'[r][2] = stack[r][2]

\* C10: the skipping model draws once per pass before the first layer; the
\* stack before and after every ConditionedBlock is (activation, scalar)
\* with the scalar as drawn; after the last layer only the activation is
\* left.  n_layers = 0 included.
C10_StackDiscipline == []C10_StackShape /\ [][C10_ScalarKept]_vars

\* after a block that ran and a block that was bypassed the stack is still
\* (activation, scalar), about to be reduced to the activation
C10_Witness ==
  /\ Built /\ model = "skipping" /\ mode = "train"
  /\ \E r \in Replicas :
       /\ pc[r] = "select" /\ Len(trace[r]) = 2 /\ draws[r] = 1
       /\ ThenRan(r, 1) /\ ElseRan(r, 2)
       /\ stack[r][1] = trace[r][2].out /\ stack[r][2].kind = "num"

====
